---------------------------- MODULE Spec2Model ----------------------------
(***************************************************************************)
(* Lifecycle of the Telegram bot of src/main.py: the pid-file instance     *)
(* lock (check_existing_session / create_session_file /                    *)
(* remove_session_file), TelegramBot.start, TelegramBot.stop, the signal   *)
(* handler and main().  Several bot processes share one lock file; inside  *)
(* a process one event loop runs main() and the stop() tasks the signal    *)
(* handler schedules, one coroutine at a time between awaits.              *)
(*                                                                         *)
(* Filesystem calls are single steps, so processes interleave between      *)
(* them.  A call into the telegram library either returns or raises; the   *)
(* model chooses.  Pids are taken to have equal decimal width, so the last *)
(* writer of the file decides its content.                                 *)
(***************************************************************************)
EXTENDS Integers, FiniteSets

\* ------------------------------------------------------------- bounds
MaxSignals == 2   \* SIGINT/SIGTERM deliveries in a run
MaxQueue == 1     \* updates waiting in the update queue of a process

\* ------------------------------------------------------ file contents
Procs == {1, 2}          \* pids of the bot processes
OtherUserPid == 3        \* a live process of another user: os.kill raises EPERM
NoFile == 0              \* os.path.exists(SESSION_FILE) is False
Malformed == -1          \* the file is empty or int() raises ValueError

\* the stop() coroutines of a process: the call in main()'s finally block
\* (line 211) and the tasks the signal handler created (line 190)
Callers == {"main", "task"}
\* positions inside stop(), and how a stop() coroutine ended
StopPcs == {"begin", "upd_stop", "app_stop", "rm_exists", "rm_remove", "returned", "raised"}

VARIABLES
    lock,        \* content of SESSION_FILE (NoFile, Malformed or a pid)
    fdLive,      \* fdLive[p]: p holds the file open for writing and it is still linked
    pc,          \* pc[p]: position of main()/start() of process p
    pid,         \* pid[p]: the local `pid` read in check_existing_session
    mstop,       \* mstop[p]: position of the stop() main() called ("none": not called)
    tasks,       \* tasks[p][l]: number of signal-created stop() tasks at position l
                 \* (for an ended task: 1 when some task ended that way)
    signals,     \* signals delivered so far, to any process
    event,       \* event[p]: shutdown_event is set
    app,         \* app[p]: self.application is not None
    handlers,    \* handlers[p]: the handlers are registered
    appRunning,  \* appRunning[p]: application.start() done, not yet stopped
    polling,     \* polling[p]: updater.start_polling() done, not yet stopped
    queue,       \* queue[p]: updates fetched and not yet dispatched
    \* history, read only by the properties
    wrote,       \* wrote[p]: p has written its lock record
    rejected,    \* rejected[p]: check_existing_session returned True
    probedAfter, \* probedAfter[p]: p's probe ran while another live process was past
                 \* create_session_file, in start()'s try body
    failed,      \* failed[p]: a startup step of p raised into start()'s except branch
    \* the log file
    botLog       \* processes that have opened bot.log for appending (line 25)

vars == <<lock, fdLive, pc, pid, mstop, tasks, signals, event, app, handlers,
          appRunning, polling, queue, wrote, rejected, probedAfter, failed,
          botLog>>

procVars == <<signals, event, app, handlers, appRunning, polling, queue>>
histVars == <<wrote, rejected, probedAfter, failed>>

\* ----------------------------------------------------------- helpers
IsAlive(p) == pc[p] \notin {"idle", "exited", "no_token"}

\* (mutant) the probe reports every recorded pid as alive
ProbeNeverRaises(n) == TRUE

\* (mutant) permission-denied counts as alive: only "no such process" raises
ProbeEpermAlive(n) == n = OtherUserPid \/ (n \in Procs /\ IsAlive(n))

\* (mutant) the probe raises for every recorded pid
ProbeAlwaysRaises(n) == FALSE

\* os.kill(pid, 0) returns without raising
ProbeOK(n) == n \in Procs /\ IsAlive(n)

\* main() is suspended in an await (other coroutines of the loop may run)
MainAwaits == {"webhook", "initialize", "app_start", "start_polling", "wait", "finally"}

\* a stop() coroutine that has ended: returned to its caller, or raised
StopEnded == {"returned", "raised"}

\* positions of stop() inside synchronous code (remove_session_file)
StopSync == {"rm_exists", "rm_remove"}

\* some signal-created stop() task of p is inside synchronous code
TaskBusy(p) == \E l \in StopSync : tasks[p][l] > 0

\* main() itself is inside synchronous code
MainBusy(p) ==
    /\ IsAlive(p)
    /\ \/ pc[p] \notin MainAwaits
       \/ mstop[p] \in StopSync

\* the event loop of p may resume main() at an await
MainCanRun(p) == IsAlive(p) /\ ~TaskBusy(p)

\* the stop() coroutine c of p is at position l
At(p, c, l) == IF c = "main" THEN mstop[p] = l ELSE tasks[p][l] > 0

\* the event loop of p may run the stop() coroutine c that is at position l
StopCanRun(p, c, l) ==
    /\ IsAlive(p)
    /\ At(p, c, l)
    /\ IF c = "main" THEN ~TaskBusy(p)
       ELSE IF l \in StopSync THEN TRUE
       ELSE ~MainBusy(p) /\ ~TaskBusy(p)

\* the stop() coroutine c of p goes from position l to position m
Move(p, c, l, m) ==
    IF c = "main"
      THEN /\ mstop' = [mstop EXCEPT ![p] = m]
           /\ tasks' = tasks
      ELSE /\ tasks' = [tasks EXCEPT ![p] =
                         [@ EXCEPT ![l] = @ - 1,
                                   ![m] = IF m \in StopEnded THEN 1 ELSE @ + 1]]
           /\ mstop' = mstop

\* the transport of p is active: the application runs or the updater polls
TransportActive(p) == appRunning[p] \/ polling[p]

\* p is past create_session_file, inside start()'s try body (lines 89-123)
Acquired(p) ==
    pc[p] \in {"build", "webhook", "initialize", "app_start", "start_polling", "wait"}

Init ==
    /\ lock \in {NoFile, Malformed, OtherUserPid} \cup Procs
    /\ fdLive = [p \in Procs |-> FALSE]
    /\ pc = [p \in Procs |-> "idle"]
    /\ pid = [p \in Procs |-> NoFile]
    /\ mstop = [p \in Procs |-> "none"]
    /\ tasks = [p \in Procs |-> [l \in StopPcs |-> 0]]
    /\ signals = 0
    /\ event = [p \in Procs |-> FALSE]
    /\ app = [p \in Procs |-> FALSE]
    /\ handlers = [p \in Procs |-> FALSE]
    /\ appRunning = [p \in Procs |-> FALSE]
    /\ polling = [p \in Procs |-> FALSE]
    /\ queue = [p \in Procs |-> 0]
    /\ wrote = [p \in Procs |-> FALSE]
    /\ rejected = [p \in Procs |-> FALSE]
    /\ probedAfter = [p \in Procs |-> FALSE]
    /\ failed = [p \in Procs |-> FALSE]
    /\ botLog = {}

\* main() enters its finally block (line 211) and calls bot.stop(), which runs
\* to its first await or filesystem call: shutdown_event.set() and the test
\* of self.application (lines 136-139)
EnterFinally(p) ==
    /\ pc' = [pc EXCEPT ![p] = "finally"]
    /\ event' = [event EXCEPT ![p] = TRUE]
    /\ mstop' = [mstop EXCEPT ![p] = IF app[p] THEN "upd_stop" ELSE "rm_exists"]
    /\ tasks' = tasks

\* os.remove(SESSION_FILE): the file is unlinked, whatever it holds, and a
\* descriptor still open on it no longer writes to SESSION_FILE
Unlink ==
    /\ lock' = NoFile
    /\ fdLive' = [q \in Procs |-> FALSE]

\* ------------------------------------------------------------ main()
\* lines 21-28: importing the module configures logging; the FileHandler
\* opens bot.log for appending, which creates it
OpenLog(p) == botLog' = botLog \cup {p}

\* the process starts with BOT_TOKEN set: main() registers the signal
\* handlers and calls bot.start(), which calls check_existing_session
Begin(p) ==
    /\ pc[p] = "idle"
    /\ OpenLog(p)
    /\ pc' = [pc EXCEPT ![p] = "chk_exists"]
    /\ UNCHANGED <<lock, fdLive, pid, mstop, tasks, procVars, histVars>>

\* lines 32-35: the process starts with BOT_TOKEN absent or empty: the error
\* is logged and sys.exit(1) ends the process
NoToken(p) ==
    /\ pc[p] = "idle"
    /\ OpenLog(p)
    /\ pc' = [pc EXCEPT ![p] = "no_token"]
    /\ UNCHANGED <<lock, fdLive, pid, mstop, tasks, procVars, histVars>>

\* the exit status of a process that has ended: sys.exit(1) at line 35;
\* otherwise the __main__ block (lines 214-232) catches every exception and
\* the interpreter ends with status 0
NotExited == -1
ExitCode(p) ==
    IF pc[p] = "no_token" THEN 1
    ELSE IF pc[p] = "exited" THEN 0
    ELSE NotExited

\* ------------------------------------------- check_existing_session
\* line 49: os.path.exists(SESSION_FILE); absent: return False (line 67)
ChkExists(p) ==
    /\ pc[p] = "chk_exists"
    /\ pc' = [pc EXCEPT ![p] = IF lock = NoFile THEN "create_open" ELSE "chk_read"]
    /\ UNCHANGED <<lock, fdLive, pid, botLog, mstop, tasks, procVars, histVars>>

\* lines 51-52: open, read, int(); FileNotFoundError and ValueError go to line 62
ChkRead(p) ==
    /\ pc[p] = "chk_read"
    /\ IF lock \in {NoFile, Malformed}
         THEN /\ pc' = [pc EXCEPT ![p] = "chk_exc_exists"]
              /\ pid' = pid
         ELSE /\ pc' = [pc EXCEPT ![p] = "chk_probe"]
              /\ pid' = [pid EXCEPT ![p] = lock]
    /\ UNCHANGED <<lock, fdLive, botLog, mstop, tasks, procVars, histVars>>

\* lines 54-58: os.kill(pid, 0); no error: return True, so start() returns
\* False (lines 82-84) and main() goes to its finally block (line 211)
ChkProbe(p) ==
    /\ pc[p] = "chk_probe"
    /\ probedAfter' = [probedAfter EXCEPT ![p] = \E q \in Procs \ {p} : Acquired(q)]
    /\ IF ProbeOK(pid[p])
         THEN /\ rejected' = [rejected EXCEPT ![p] = TRUE]
              /\ EnterFinally(p)
         ELSE /\ rejected' = rejected
              /\ pc' = [pc EXCEPT ![p] = "chk_remove"]
              /\ UNCHANGED <<mstop, tasks, event>>
    /\ UNCHANGED <<lock, fdLive, pid, botLog, signals, app, handlers, appRunning,
                   polling, queue, wrote, failed>>

\* lines 60-61: os.remove(SESSION_FILE), return False; FileNotFoundError is
\* an OSError and goes to line 62
ChkRemove(p) ==
    /\ pc[p] = "chk_remove"
    /\ IF lock = NoFile
         THEN /\ pc' = [pc EXCEPT ![p] = "chk_exc_exists"]
              /\ UNCHANGED <<lock, fdLive>>
         ELSE /\ pc' = [pc EXCEPT ![p] = "create_open"]
              /\ Unlink
    /\ UNCHANGED <<pid, botLog, mstop, tasks, procVars, histVars>>

\* lines 62-64: the except branch tests os.path.exists again
ChkExcExists(p) ==
    /\ pc[p] = "chk_exc_exists"
    /\ pc' = [pc EXCEPT ![p] = IF lock = NoFile THEN "create_open" ELSE "chk_exc_remove"]
    /\ UNCHANGED <<lock, fdLive, pid, botLog, mstop, tasks, procVars, histVars>>

\* lines 65-66: os.remove, return False; a FileNotFoundError here leaves
\* check_existing_session and start(), and main() catches it (line 208)
ChkExcRemove(p) ==
    /\ pc[p] = "chk_exc_remove"
    /\ IF lock = NoFile
         THEN /\ EnterFinally(p)
              /\ UNCHANGED <<lock, fdLive>>
         ELSE /\ pc' = [pc EXCEPT ![p] = "create_open"]
              /\ Unlink
              /\ UNCHANGED <<mstop, tasks, event>>
    /\ UNCHANGED <<pid, botLog, signals, app, handlers, appRunning, polling, queue,
                   histVars>>

\* ---------------------------------------------- create_session_file
\* line 71: open(SESSION_FILE, "w") creates or truncates the file
CreateOpen(p) ==
    /\ pc[p] = "create_open"
    /\ pc' = [pc EXCEPT ![p] = "create_write"]
    /\ lock' = Malformed
    /\ fdLive' = [fdLive EXCEPT ![p] = TRUE]
    /\ UNCHANGED <<pid, botLog, mstop, tasks, procVars, histVars>>

\* (mutant) the pid written is never flushed to the file
WrittenNothing(p) == lock

\* line 72: what SESSION_FILE holds after p's write: the pid reaches the file
\* when the with block closes it; a file unlinked since the open keeps the
\* bytes out of SESSION_FILE
Written(p) == IF fdLive[p] THEN p ELSE lock

\* line 72: f.write(str(os.getpid())) and the close of the with block
CreateWrite(p) ==
    /\ pc[p] = "create_write"
    /\ pc' = [pc EXCEPT ![p] = "build"]
    /\ lock' = Written(p)
    /\ fdLive' = [fdLive EXCEPT ![p] = FALSE]
    /\ wrote' = [wrote EXCEPT ![p] = TRUE]
    /\ UNCHANGED <<pid, botLog, mstop, tasks, procVars, rejected, probedAfter, failed>>

\* ---------------------------------------------------------- start()
\* a startup step raised: Conflict or any Exception (lines 125-132); the
\* except branch calls remove_session_file
StartupRaise(p) ==
    /\ pc' = [pc EXCEPT ![p] = "fail_exists"]
    /\ failed' = [failed EXCEPT ![p] = TRUE]

\* lines 93-98: Application.builder()...build().  The local `pid` of
\* check_existing_session is read no more and is forgotten here.
Build(p) ==
    /\ pc[p] = "build"
    /\ \/ /\ pc' = [pc EXCEPT ![p] = "webhook"]
          /\ app' = [app EXCEPT ![p] = TRUE]
          /\ UNCHANGED failed
       \/ /\ StartupRaise(p)
          /\ UNCHANGED app
    /\ pid' = [pid EXCEPT ![p] = NoFile]
    /\ UNCHANGED <<lock, fdLive, botLog, mstop, tasks, signals, event, handlers,
                   appRunning, polling, queue, wrote, rejected, probedAfter>>

\* lines 101-111: await delete_webhook() (an exception is only logged, so
\* both outcomes continue), then the handlers are added
Webhook(p) ==
    /\ pc[p] = "webhook"
    /\ MainCanRun(p)
    /\ pc' = [pc EXCEPT ![p] = "initialize"]
    /\ handlers' = [handlers EXCEPT ![p] = TRUE]
    /\ UNCHANGED <<lock, fdLive, pid, botLog, mstop, tasks, signals, event, app,
                   appRunning, polling, queue, histVars>>

\* line 115: await application.initialize()
Initialize(p) ==
    /\ pc[p] = "initialize"
    /\ MainCanRun(p)
    /\ \/ /\ pc' = [pc EXCEPT ![p] = "app_start"]
          /\ UNCHANGED failed
       \/ StartupRaise(p)
    /\ UNCHANGED <<lock, fdLive, pid, botLog, mstop, tasks, procVars, wrote, rejected,
                   probedAfter>>

\* line 116: await application.start()
AppStart(p) ==
    /\ pc[p] = "app_start"
    /\ MainCanRun(p)
    /\ \/ /\ pc' = [pc EXCEPT ![p] = "start_polling"]
          /\ appRunning' = [appRunning EXCEPT ![p] = TRUE]
          /\ UNCHANGED failed
       \/ /\ StartupRaise(p)
          /\ UNCHANGED appRunning
    /\ UNCHANGED <<lock, fdLive, pid, botLog, mstop, tasks, signals, event, app, handlers,
                   polling, queue, wrote, rejected, probedAfter>>

\* line 117: await application.updater.start_polling(drop_pending_updates=True)
StartPolling(p) ==
    /\ pc[p] = "start_polling"
    /\ MainCanRun(p)
    /\ \/ /\ pc' = [pc EXCEPT ![p] = "wait"]
          /\ polling' = [polling EXCEPT ![p] = TRUE]
          /\ UNCHANGED failed
       \/ /\ StartupRaise(p)
          /\ UNCHANGED polling
    /\ UNCHANGED <<lock, fdLive, pid, botLog, mstop, tasks, signals, event, app, handlers,
                   appRunning, queue, wrote, rejected, probedAfter>>

\* lines 122-123: await shutdown_event.wait() returns once the event is set;
\* start() returns True and main() runs its finally block
Wait(p) ==
    /\ pc[p] = "wait"
    /\ MainCanRun(p)
    /\ event[p]
    /\ EnterFinally(p)
    /\ UNCHANGED <<lock, fdLive, pid, botLog, signals, app, handlers, appRunning,
                   polling, queue, histVars>>

\* (mutant) the except branch returns False without remove_session_file
FailNoCleanup(p) ==
    /\ pc[p] = "fail_exists"
    /\ EnterFinally(p)
    /\ UNCHANGED <<lock, fdLive, pid, botLog, signals, app, handlers, appRunning,
                   polling, queue, histVars>>

\* lines 127/131 -> 76: remove_session_file in the except branch tests
\* exists; absent: start() returns False (lines 128/132)
FailExists(p) ==
    /\ pc[p] = "fail_exists"
    /\ IF lock = NoFile
         THEN EnterFinally(p)
         ELSE /\ pc' = [pc EXCEPT ![p] = "fail_remove"]
              /\ UNCHANGED <<mstop, tasks, event>>
    /\ UNCHANGED <<lock, fdLive, pid, botLog, signals, app, handlers, appRunning,
                   polling, queue, histVars>>

\* line 77, then return False (lines 128/132); a FileNotFoundError leaves
\* start() instead and main() catches it (line 208); both reach line 211
FailRemove(p) ==
    /\ pc[p] = "fail_remove"
    /\ IF lock = NoFile
         THEN UNCHANGED <<lock, fdLive>>
         ELSE Unlink
    /\ EnterFinally(p)
    /\ UNCHANGED <<pid, botLog, signals, app, handlers, appRunning, polling, queue,
                   histVars>>

\* ----------------------------------------------------------- stop()
\* a stop() coroutine ends (returned or raised); main()'s own stop() ends
\* main(), run_until_complete returns and the process exits (lines 218-232):
\* the loop is closed, so its pending tasks and queued updates are gone
StopEnds(p, c, l, how) ==
    IF c = "main"
      THEN /\ mstop' = [mstop EXCEPT ![p] = how]
           /\ pc' = [pc EXCEPT ![p] = "exited"]
           /\ tasks' = [tasks EXCEPT ![p] = [m \in StopPcs |-> 0]]
           /\ queue' = [queue EXCEPT ![p] = 0]
      ELSE /\ Move(p, c, l, how)
           /\ UNCHANGED <<pc, queue>>

\* lines 136-139 in a task the signal handler created: shutdown_event.set(),
\* then the test of self.application
StopBegin(p) ==
    /\ StopCanRun(p, "task", "begin")
    /\ event' = [event EXCEPT ![p] = TRUE]
    /\ Move(p, "task", "begin", IF app[p] THEN "upd_stop" ELSE "rm_exists")
    /\ UNCHANGED <<lock, fdLive, pc, pid, botLog, signals, app, handlers, appRunning,
                   polling, queue, histVars>>

\* (mutant) no except clause around the transport calls: an exception of
\* updater.stop() leaves stop()
StopUpdaterUncaught(p, c) ==
    /\ StopCanRun(p, c, "upd_stop")
    /\ \/ /\ polling' = [polling EXCEPT ![p] = FALSE]
          /\ Move(p, c, "upd_stop", "app_stop")
          /\ UNCHANGED <<pc, queue>>
       \/ /\ StopEnds(p, c, "upd_stop", "raised")
          /\ UNCHANGED polling
    /\ UNCHANGED <<lock, fdLive, pid, botLog, signals, event, app, handlers,
                   appRunning, histVars>>

\* lines 142-143: await application.updater.stop(); an exception skips to
\* line 149 and then line 152
StopUpdater(p, c) ==
    /\ StopCanRun(p, c, "upd_stop")
    /\ \/ /\ polling' = [polling EXCEPT ![p] = FALSE]
          /\ Move(p, c, "upd_stop", "app_stop")
       \/ /\ Move(p, c, "upd_stop", "rm_exists")
          /\ UNCHANGED polling
    /\ UNCHANGED <<lock, fdLive, pc, pid, botLog, signals, event, app, handlers,
                   appRunning, queue, histVars>>

\* lines 146-150: await application.stop(), await application.shutdown();
\* an exception of either is logged and line 152 is next
StopApp(p, c) ==
    /\ StopCanRun(p, c, "app_stop")
    /\ Move(p, c, "app_stop", "rm_exists")
    /\ \/ appRunning' = [appRunning EXCEPT ![p] = FALSE]
       \/ UNCHANGED appRunning
    /\ UNCHANGED <<lock, fdLive, pc, pid, botLog, signals, event, app, handlers,
                   polling, queue, histVars>>

\* line 152 -> 76: remove_session_file tests os.path.exists; absent: return
StopRmExists(p, c) ==
    /\ StopCanRun(p, c, "rm_exists")
    /\ IF lock = NoFile
         THEN StopEnds(p, c, "rm_exists", "returned")
         ELSE /\ Move(p, c, "rm_exists", "rm_remove")
              /\ UNCHANGED <<pc, queue>>
    /\ UNCHANGED <<lock, fdLive, pid, botLog, signals, event, app, handlers,
                   appRunning, polling, histVars>>

\* line 77: os.remove(SESSION_FILE), whatever the file holds; a
\* FileNotFoundError leaves stop()
StopRmRemove(p, c) ==
    /\ StopCanRun(p, c, "rm_remove")
    /\ IF lock = NoFile
         THEN /\ StopEnds(p, c, "rm_remove", "raised")
              /\ UNCHANGED <<lock, fdLive>>
         ELSE /\ StopEnds(p, c, "rm_remove", "returned")
              /\ Unlink
    /\ UNCHANGED <<pid, botLog, signals, event, app, handlers, appRunning, polling,
                   histVars>>

\* --------------------------------------------------- signal_handler
\* lines 186-191: SIGINT/SIGTERM runs signal_handler in the main thread; it
\* schedules a new stop() task on the loop (stop_event is read nowhere)
Signal(p) ==
    /\ IsAlive(p)
    /\ signals < MaxSignals
    /\ signals' = signals + 1
    /\ tasks' = [tasks EXCEPT ![p]["begin"] = @ + 1]
    /\ UNCHANGED <<lock, fdLive, pc, pid, botLog, mstop, event, app, handlers,
                   appRunning, polling, queue, histVars>>

\* ------------------------------------------- transport and handlers
\* no coroutine of p is inside synchronous code: the loop may run a
\* library task
LoopFree(p) == IsAlive(p) /\ ~MainBusy(p) /\ ~TaskBusy(p)

\* the updater's polling task fetches an update (started at line 117)
Poll(p) ==
    /\ LoopFree(p)
    /\ polling[p]
    /\ queue[p] < MaxQueue
    /\ queue' = [queue EXCEPT ![p] = @ + 1]
    /\ UNCHANGED <<lock, fdLive, pc, pid, botLog, mstop, tasks, signals, event, app,
                   handlers, appRunning, polling, histVars>>

\* the running application takes an update and invokes a handler
\* (start_command, help_command, handle_message: lines 155-161)
Dispatch(p) ==
    /\ LoopFree(p)
    /\ appRunning[p]
    /\ handlers[p]
    /\ queue[p] > 0
    /\ queue' = [queue EXCEPT ![p] = @ - 1]
    /\ UNCHANGED <<lock, fdLive, pc, pid, botLog, mstop, tasks, signals, event, app,
                   handlers, appRunning, polling, histVars>>

\* ---------------------------------------------------- specification
Next ==
    \E p \in Procs :
        \/ Begin(p)
        \/ NoToken(p)
        \/ ChkExists(p)
        \/ ChkRead(p)
        \/ ChkProbe(p)
        \/ ChkRemove(p)
        \/ ChkExcExists(p)
        \/ ChkExcRemove(p)
        \/ CreateOpen(p)
        \/ CreateWrite(p)
        \/ Build(p)
        \/ Webhook(p)
        \/ Initialize(p)
        \/ AppStart(p)
        \/ StartPolling(p)
        \/ Wait(p)
        \/ FailExists(p)
        \/ FailRemove(p)
        \/ Signal(p)
        \/ Poll(p)
        \/ Dispatch(p)
        \/ StopBegin(p)
        \/ \E c \in Callers :
              \/ StopUpdater(p, c)
              \/ StopApp(p, c)
              \/ StopRmExists(p, c)
              \/ StopRmRemove(p, c)

Spec == Init /\ [][Next]_vars

\* a step of the event loop of p (line 218): it resumes start() at the
\* shutdown wait or runs a stop() coroutine
LoopStep(p) ==
    \/ Wait(p)
    \/ StopBegin(p)
    \/ \E c \in Callers :
          \/ StopUpdater(p, c)
          \/ StopApp(p, c)
          \/ StopRmExists(p, c)
          \/ StopRmRemove(p, c)

\* a step of start() of p before the shutdown wait: a filesystem call
\* returns, or a call into the library returns or raises
StartStep(p) ==
    \/ ChkExists(p) \/ ChkRead(p) \/ ChkProbe(p) \/ ChkRemove(p)
    \/ ChkExcExists(p) \/ ChkExcRemove(p)
    \/ CreateOpen(p) \/ CreateWrite(p)
    \/ Build(p) \/ Webhook(p) \/ Initialize(p) \/ AppStart(p) \/ StartPolling(p)
    \/ FailExists(p) \/ FailRemove(p)

\* the event loop runs its ready coroutines in turn, none that can run is
\* kept waiting for ever, and a started process is not halted inside start()
FairSpec ==
    Spec /\ \A p \in Procs : WF_vars(LoopStep(p)) /\ WF_vars(StartStep(p))

\* --------------------------------------------------------- properties
\* no other bot process has started: p runs alone against the file it found
Solo(p) == \A q \in Procs \ {p} : pc[q] = "idle"

\* no signal has reached p: no stop() task exists on its loop
NoTasks(p) == \A l \in StopPcs : tasks[p][l] = 0

\* a stop() task of p has returned to the event loop
TaskReturned(p) == tasks[p]["returned"] > 0

\* this step is taken by a coroutine of p
StepOf(p) == pc'[p] # pc[p] \/ mstop'[p] # mstop[p]
             \/ \E l \in StopPcs \ {"begin"} : tasks'[p][l] # tasks[p][l]

\* C1: mutual exclusion.  At no time are two live processes both past a
\* successful check_existing_session and create_session_file, and at no
\* time do two live processes both have their transport started.
C1_MutualExclusion ==
    \A p, q \in Procs :
        p # q =>
          /\ ~(Acquired(p) /\ Acquired(q))
          /\ ~(IsAlive(p) /\ IsAlive(q) /\ TransportActive(p) /\ TransportActive(q))

\* C2: lock contention leaves the lock untouched.  A process whose
\* check_existing_session found the pid of another live process, written by
\* that process, never starts its transport, and no step it takes up to its
\* exit (the stop() of main()'s finally block included) changes the lock
\* file while it holds that pid.
C2_ContentionLeavesLock ==
    /\ [](\A p \in Procs : rejected[p] => ~app[p] /\ ~TransportActive(p))
    /\ [][\A p \in Procs :
            (/\ rejected[p] /\ pid[p] # p /\ StepOf(p)
             /\ lock = pid[p] /\ IsAlive(pid[p]) /\ wrote[pid[p]])
               => lock' = lock]_vars

\* C3: no ownership transfer.  A step of p that deletes the lock file never
\* deletes a record that another live process wrote and that names it.
C3_NoOwnershipTransfer ==
    [][\A p \in Procs :
         (StepOf(p) /\ lock # NoFile /\ lock' = NoFile)
            => ~(lock \in Procs \ {p} /\ IsAlive(lock) /\ wrote[lock])]_vars

\* C4: of two start attempts, the one whose liveness probe runs after the
\* other has written its lock record (and while that other is live and in
\* start()'s try body) fails as lock-held: check_existing_session returns
\* True for it.
C4_SecondAttemptRejected ==
    \A p \in Procs : probedAfter[p] => rejected[p]

\* the probe of the recorded pid reported no such process, and p is between
\* that probe and the end of create_session_file
StaleFound(p) ==
    /\ pc[p] \in {"chk_remove", "create_open", "create_write", "build"}
    /\ pid[p] # NoFile

C6_StaleLockRecovery ==
    \A p \in Procs :
        Solo(p) =>
          /\ rejected[p] => pid[p] = p
          /\ (pc[p] \in {"chk_exc_exists", "chk_exc_remove"}) => pid[p] = NoFile
          /\ StaleFound(p) =>
               /\ ~rejected[p]
               /\ pc[p] = "chk_remove" => lock = pid[p]
               /\ pc[p] = "create_open" => lock = NoFile
               /\ pc[p] = "create_write" => (lock = Malformed /\ fdLive[p])
               /\ pc[p] = "build" => (lock = p /\ wrote[p])

C6_Witness ==
    \E p \in Procs :
        Solo(p) /\ StaleFound(p) /\ pc[p] = "build" /\ lock = p /\ ~rejected[p]

\* C7: startup failure releases the lock.  Once start() has created the lock
\* file, a later startup step has failed and start() has been left, the lock
\* file does not hold the pid of this process, whatever the other processes
\* and the signals do.
C7_StartupFailureReleases ==
    \A p \in Procs :
        (wrote[p] /\ failed[p] /\ pc[p] \in {"finally", "exited"}) => lock # p

C7_Witness ==
    \E p \in Procs :
        wrote[p] /\ failed[p] /\ pc[p] = "finally" /\ lock = NoFile

C11_ShutdownErrorsNotEscalated ==
    \A p \in Procs : mstop[p] # "raised" /\ tasks[p]["raised"] = 0

\* C12: a failure while stopping the transport does not prevent the lock
\* release.  A stop() coroutine leaves updater.stop() only for
\* application.stop() or, when it raised, for remove_session_file; it leaves
\* application.stop()/shutdown() only for remove_session_file; and it ends
\* only from inside remove_session_file.
C12_TransportFailureStillReleases ==
    [][\A p \in Procs :
         /\ (mstop[p] = "upd_stop" /\ mstop'[p] # "upd_stop")
               => mstop'[p] \in {"app_stop", "rm_exists"}
         /\ (mstop[p] = "upd_stop" /\ mstop'[p] # "upd_stop" /\ polling'[p])
               => mstop'[p] = "rm_exists"
         /\ (mstop[p] = "app_stop" /\ mstop'[p] # "app_stop")
               => mstop'[p] = "rm_exists"
         /\ (mstop'[p] \in StopEnded /\ mstop[p] \notin StopEnded)
               => mstop[p] \in StopSync
         /\ pc'[p] # "exited" =>
               /\ tasks'[p]["upd_stop"] < tasks[p]["upd_stop"]
                     => \/ tasks'[p]["app_stop"] > tasks[p]["app_stop"]
                        \/ tasks'[p]["rm_exists"] > tasks[p]["rm_exists"]
               /\ tasks'[p]["app_stop"] < tasks[p]["app_stop"]
                     => tasks'[p]["rm_exists"] > tasks[p]["rm_exists"]]_vars

C12_Witness ==
    \E p \in Procs :
        mstop[p] = "rm_exists" /\ app[p] /\ polling[p] /\ appRunning[p]

\* C13: a startup failure yields a non-zero exit status.  A process that
\* has ended after start() found the lock held by another live process, or
\* after a startup step raised, has a non-zero exit status.
C13_StartupFailureNonZeroExit ==
    \A p \in Procs :
        /\ (pc[p] = "exited" /\ rejected[p] /\ pid[p] # p) => ExitCode(p) # 0
        /\ (pc[p] = "exited" /\ failed[p]) => ExitCode(p) # 0

\* a signal has been delivered to p while it is Running: start() waits on
\* the shutdown event, which is not set, and the stop() task is scheduled
SignalledWhileRunning(p) ==
    pc[p] = "wait" /\ ~event[p] /\ tasks[p]["begin"] > 0

\* main() of p has returned with the transport stopped and the lock file
\* not naming p
Stopped(p) == pc[p] = "exited" /\ ~TransportActive(p) /\ lock # p

C16_MissingTokenNoSideEffects ==
    \A p \in Procs :
        pc[p] = "no_token" =>
           /\ ExitCode(p) = 1
           /\ pid[p] = NoFile /\ ~wrote[p] /\ ~fdLive[p] /\ mstop[p] = "none"
           /\ ~app[p] /\ ~TransportActive(p)
           /\ p \notin botLog

C18_ProbeErrorMeansStale ==
    \A p \in Procs :
        pid[p] = OtherUserPid =>
           /\ ~rejected[p]
           /\ Solo(p) =>
                /\ pc[p] \in {"chk_probe", "chk_remove", "create_open",
                              "create_write", "build"}
                /\ pc[p] \in {"chk_probe", "chk_remove"} => lock = OtherUserPid
                /\ pc[p] = "create_open" => lock = NoFile
                /\ pc[p] = "build" => (lock = p /\ wrote[p])

C18_Witness ==
    \E p \in Procs :
        Solo(p) /\ pid[p] = OtherUserPid /\ pc[p] = "build" /\ lock = p /\ wrote[p]

C20_OwnPidLeftoverHeld ==
    \A p \in Procs :
        (pid[p] = p /\ pc[p] # "chk_probe") =>
           /\ rejected[p]
           /\ pc[p] \in {"finally", "exited"}
           /\ ~wrote[p] /\ ~fdLive[p]
           /\ ~app[p] /\ ~handlers[p] /\ ~TransportActive(p)

C20_Witness ==
    \E p \in Procs :
        pid[p] = p /\ rejected[p] /\ pc[p] = "finally" /\ lock = p /\ ~wrote[p]
=============================================================================
